---- MODULE Spec2Model ----
(***************************************************************************)
(* A model of the article scraper (lab_5_scrapper/scrapper.py) and of the  *)
(* corpus pipeline (lab_6_pipeline/pipeline.py).                           *)
(*                                                                         *)
(* Python strings are modelled as sequences: a URL is a sequence of string *)
(* segments (so that 'prefix' + url is \o), a date token is a sequence of  *)
(* one-character strings (so that strptime can be run over it), a file     *)
(* name prefix is a sequence of one-character strings (so that int() can   *)
(* be run over it).                                                        *)
(*                                                                         *)
(* Four specifications share the variables:                                *)
(*   Spec          scrapper.main: Crawler.find_articles, then the loop     *)
(*                 over the discovered URLs                                *)
(*   SpecConfig    Config._validate_config_content                         *)
(*   SpecDate      HTMLParser.unify_date_format                            *)
(*   SpecPipeline  pipeline.main: CorpusManager.__init__, then             *)
(*                 MorphologicalAnalysisPipeline.run                       *)
(***************************************************************************)
EXTENDS Integers, Sequences, FiniteSets

VARIABLES
    \* ---- scrapper.main
    num_articles,   \* Config._num_articles
    n_seeds,        \* len(Crawler._seed_urls)
    urls,           \* Crawler.urls
    seed_i,         \* number of seeds the outer loop of find_articles has taken
    page,           \* the anchors soup.find_all returned for the current seed
    anchor_i,       \* number of anchors the inner loop has taken
    fetched,        \* seed indices make_request was called for, in order
    pc,             \* position of scrapper.main
    err,            \* the exception that ended scrapper.main, or "none"
    next_id,        \* id_ of enumerate(crawler.urls, start=1)
    parsed,         \* ids HTMLParser.parse was called for, in order
    raw_written,    \* ids to_raw was called for, in order
    meta_written,   \* ids to_meta was called for, in order
    \* ---- Config._validate_config_content
    cfg,            \* the payload, ConfigDTO(**json)
    cfg_pc,         \* the next check of _validate_config_content
    cfg_err,        \* the exception it raised, or "none"
    \* ---- HTMLParser.unify_date_format
    date_in,        \* date_str.split(), before lower()
    date_out,       \* the datetime returned, or the ValueError
    \* ---- pipeline.main
    path_kind,      \* what ASSETS_PATH is: "missing", "file" or "dir"
    dir,            \* the directory: file name -> size
    p_pc,           \* position of pipeline.main
    p_err,          \* the exception that ended pipeline.main, or "none"
    storage,        \* CorpusManager._storage: article id -> text
    scanned,        \* the raw files _scan_dataset has loaded
    conllu,         \* article id -> the positions of its ConlluSentences
    cleaned         \* ids to_cleaned was called for

vars == << num_articles, n_seeds, urls, seed_i, page, anchor_i, fetched, pc, err,
           next_id, parsed, raw_written, meta_written,
           cfg, cfg_pc, cfg_err, date_in, date_out,
           path_kind, dir, p_pc, p_err, storage, scanned, conllu, cleaned >>

scraper_vars == << num_articles, n_seeds, urls, seed_i, page, anchor_i, fetched, pc,
                   err, next_id, parsed, raw_written, meta_written >>
config_vars == << cfg, cfg_pc, cfg_err >>
date_vars == << date_in, date_out >>
pipeline_vars == << path_kind, dir, p_pc, p_err, storage, scanned, conllu, cleaned >>

----------------------------------------------------------------------------
(* Bounds of the model *)

MaxArticles == 2    \* total_articles is drawn from 1..MaxArticles in Spec
MaxSeeds == 2       \* at most this many seed URLs
MaxAnchors == 2     \* at most this many matching anchors on a seed page
MaxTokens == 3      \* at most this many tokens in a date string
MaxId == 2          \* raw file names "1_raw.txt" .. "<MaxId>_raw.txt"
MaxSentences == 2   \* at most this many sentences in an article text

----------------------------------------------------------------------------
(* Helpers on sequences *)

Range(s) == { s[i] : i \in 1..Len(s) }

SeqsUpTo(S, n) == UNION { [1..k -> S] : k \in 0..n }

Min(a, b) == IF a < b THEN a ELSE b

\* s[:n] of Python
Prefix(s, n) == SubSeq(s, 1, Min(n, Len(s)))

NoDuplicates(s) == \A i, j \in 1..Len(s) : i # j => s[i] # s[j]

----------------------------------------------------------------------------
(***************************************************************************)
(* HTMLParser.unify_date_format                                            *)
(*                                                                         *)
(* A token is a sequence of one-character strings.  The Russian month      *)
(* names of months_collection are written in Latin letters (the module is  *)
(* ASCII); only equality with a key of the table is ever asked about them. *)
(***************************************************************************)

DigitChars == {"0", "1", "2", "3", "4", "5", "6", "7", "8", "9"}

DigitVal(c) ==
    CASE c = "0" -> 0 [] c = "1" -> 1 [] c = "2" -> 2 [] c = "3" -> 3
      [] c = "4" -> 4 [] c = "5" -> 5 [] c = "6" -> 6 [] c = "7" -> 7
      [] c = "8" -> 8 [] c = "9" -> 9

\* str.lower() on the letters the model uses
LowerChar(c) ==
    CASE c = "M" -> "m" [] c = "A" -> "a" [] OTHER -> c

Lower(s) == [i \in 1..Len(s) |-> LowerChar(s[i])]

\* str.isdigit(): non-empty and every character a digit
IsDigit(s) == Len(s) > 0 /\ \A i \in 1..Len(s) : s[i] \in DigitChars

\* the keys of months_collection, January to December
MonthNames ==
    << <<"y","a","n","v","a","r","y","a">>,   <<"f","e","v","r","a","l","y","a">>,
       <<"m","a","r","t","a">>,               <<"a","p","r","e","l","y","a">>,
       <<"m","a","y","a">>,                   <<"i","y","u","n","y","a">>,
       <<"i","y","u","l","y","a">>,           <<"a","v","g","u","s","t","a">>,
       <<"s","e","n","t","y","a","b","r","y","a">>,
       <<"o","k","t","y","a","b","r","y","a">>,
       <<"n","o","y","a","b","r","y","a">>,   <<"d","e","k","a","b","r","y","a">> >>

\* the values of months_collection: "01" .. "12"
MonthCode(k) == IF k < 10 THEN <<"0", CHOOSE c \in DigitChars : DigitVal(c) = k>>
                ELSE <<"1", CHOOSE c \in DigitChars : DigitVal(c) = k - 10>>

InMonths(element) == \E k \in 1..12 : MonthNames[k] = element

months_collection(element) == MonthCode(CHOOSE k \in 1..12 : MonthNames[k] = element)

\* element in ['1', ..., '9']
InDigits(element) == Len(element) = 1 /\ element[1] \in DigitChars \ {"0"}

HasColon(element) == \E i \in 1..Len(element) : element[i] = ":"

\* The loop over list_date: the strings month, day and time it builds.
RECURSIVE Collect(_, _)
Collect(list_date, acc) ==
    IF list_date = << >> THEN acc
    ELSE LET element == Head(list_date)
             t == IF HasColon(element) THEN acc.time \o element ELSE acc.time
             m == IF InMonths(element) THEN acc.month \o months_collection(element)
                  ELSE acc.month
             d1 == IF IsDigit(element) /\ InDigits(element)
                   THEN acc.day \o <<"0">> \o element ELSE acc.day
             d2 == IF IsDigit(element) /\ ~InDigits(element)
                   THEN d1 \o element ELSE d1
         IN  Collect(Tail(list_date), [month |-> m, day |-> d2, time |-> t])

\* a variant of CorrectDate that falls back to January when no month was found
CorrectDate_DefaultsMonth(list_date) ==
    LET c == Collect(list_date, [month |-> << >>, day |-> << >>, time |-> << >>])
        month == IF c.month = << >> THEN <<"0", "1">> ELSE c.month
    IN  <<"2", "0", "2", "3">> \o <<"-">> \o month \o <<"-">> \o Prefix(c.day, 2)
            \o <<" ">> \o c.time

\* correct_date = year + '-' + month + '-' + day[:2] + ' ' + time
CorrectDate(list_date) ==
    LET c == Collect(list_date, [month |-> << >>, day |-> << >>, time |-> << >>])
    IN  <<"2", "0", "2", "3">> \o <<"-">> \o c.month \o <<"-">> \o Prefix(c.day, 2)
            \o <<" ">> \o c.time

(***************************************************************************)
(* datetime.strptime(s, '%Y-%m-%d %H:%M').  CPython turns the format into  *)
(* the regular expression                                                  *)
(*   (\d\d\d\d)-(1[0-2]|0[1-9]|[1-9])-(3[01]|[12]\d|0[1-9]|[1-9]| [1-9])   *)
(*   \s+(2[0-3]|[0-1]\d|\d):([0-5]\d|\d)                                   *)
(* matches it at the start of s, raises ValueError if it does not match or *)
(* if the match does not end where s ends, and then raises ValueError if   *)
(* the day does not exist in the month.                                    *)
(***************************************************************************)

At(s, i) == IF i >= 1 /\ i <= Len(s) THEN s[i] ELSE "<end>"

\* the lengths with which %m matches at position p
MatchMonth(s, p) ==
    { n \in {1, 2} :
        \/ n = 2 /\ At(s, p) = "1" /\ At(s, p + 1) \in {"0", "1", "2"}
        \/ n = 2 /\ At(s, p) = "0" /\ At(s, p + 1) \in DigitChars \ {"0"}
        \/ n = 1 /\ At(s, p) \in DigitChars \ {"0"} }

\* the lengths with which %d matches at position p
MatchDay(s, p) ==
    { n \in {1, 2} :
        \/ n = 2 /\ At(s, p) = "3" /\ At(s, p + 1) \in {"0", "1"}
        \/ n = 2 /\ At(s, p) \in {"1", "2"} /\ At(s, p + 1) \in DigitChars
        \/ n = 2 /\ At(s, p) = "0" /\ At(s, p + 1) \in DigitChars \ {"0"}
        \/ n = 1 /\ At(s, p) \in DigitChars \ {"0"}
        \/ n = 2 /\ At(s, p) = " " /\ At(s, p + 1) \in DigitChars \ {"0"} }

\* the lengths with which %H matches at position p
MatchHour(s, p) ==
    { n \in {1, 2} :
        \/ n = 2 /\ At(s, p) = "2" /\ At(s, p + 1) \in {"0", "1", "2", "3"}
        \/ n = 2 /\ At(s, p) \in {"0", "1"} /\ At(s, p + 1) \in DigitChars
        \/ n = 1 /\ At(s, p) \in DigitChars }

\* the length with which %M, the last group, matches at p: the first alternative
\* that matches, 0 if none does
MatchMinute(s, p) ==
    IF At(s, p) \in {"0", "1", "2", "3", "4", "5"} /\ At(s, p + 1) \in DigitChars THEN 2
    ELSE IF At(s, p) \in DigitChars THEN 1
    ELSE 0

\* the number the digits of s[p .. p+n-1] spell, a leading space ignored
NumAt(s, p, n) ==
    IF n = 1 THEN DigitVal(s[p])
    ELSE IF s[p] = " " THEN DigitVal(s[p + 1])
    ELSE 10 * DigitVal(s[p]) + DigitVal(s[p + 1])

\* the days of the months of 2023
DaysInMonth(m) == IF m = 2 THEN 28 ELSE IF m \in {4, 6, 9, 11} THEN 30 ELSE 31

ValueError == [ok |-> FALSE, month |-> 0, day |-> 0, hour |-> 0, minute |-> 0]

\* the ways the regular expression matches s up to the end of s:
\* (length of %m, length of %d, length of \s+, length of %H)
StrptimeMatches(s) ==
    { w \in {1, 2} \X {1, 2} \X (1..Len(s)) \X {1, 2} :
        LET pm == 6
            pd == pm + w[1] + 1
            ps == pd + w[2]
            ph == ps + w[3]
            pn == ph + w[4] + 1
        IN  /\ \A i \in 1..4 : At(s, i) \in DigitChars
            /\ At(s, 5) = "-"
            /\ w[1] \in MatchMonth(s, pm)
            /\ At(s, pm + w[1]) = "-"
            /\ w[2] \in MatchDay(s, pd)
            /\ \A i \in ps..(ph - 1) : At(s, i) = " "
            /\ w[4] \in MatchHour(s, ph)
            /\ At(s, ph + w[4]) = ":"
            /\ MatchMinute(s, pn) > 0
            /\ pn + MatchMinute(s, pn) - 1 = Len(s) }

Strptime(s) ==
    IF StrptimeMatches(s) = {} THEN ValueError
    ELSE LET w == CHOOSE x \in StrptimeMatches(s) : TRUE
             pm == 6
             pd == pm + w[1] + 1
             ph == pd + w[2] + w[3]
             pn == ph + w[4] + 1
             month == NumAt(s, pm, w[1])
             day == NumAt(s, pd, w[2])
         IN  IF day > DaysInMonth(month) THEN ValueError
             ELSE [ok |-> TRUE, month |-> month, day |-> day,
                   hour |-> NumAt(s, ph, w[4]),
                   minute |-> NumAt(s, pn, MatchMinute(s, pn))]

unify_date_format(date_str) ==
    Strptime(CorrectDate([i \in 1..Len(date_str) |-> Lower(date_str[i])]))

\* The tokens date strings are drawn from.
Tok_1430 == <<"1", "4", ":", "3", "0">>
Tok_105 == <<"1", ":", "0", "5">>
Tok_5 == <<"5">>
Tok_15 == <<"1", "5">>
Tok_31 == <<"3", "1">>
Tok_marta == <<"m", "a", "r", "t", "a">>
Tok_Aprelya == <<"A", "p", "r", "e", "l", "y", "a">>
Tok_word == <<"g", ".">>

DateTokens == {Tok_1430, Tok_105, Tok_5, Tok_15, Tok_31, Tok_marta, Tok_Aprelya,
               Tok_word}

Pending == [ok |-> FALSE, month |-> -1, day |-> -1, hour |-> -1, minute |-> -1]

DateIdle == date_in = << >> /\ date_out = Pending

InitDate == date_in \in SeqsUpTo(DateTokens, MaxTokens) /\ date_out = Pending

UnifyDate ==
    /\ date_out = Pending
    /\ date_out' = unify_date_format(date_in)
    /\ UNCHANGED date_in

----------------------------------------------------------------------------
(***************************************************************************)
(* Crawler.find_articles and scrapper.main                                 *)
(*                                                                         *)
(* A URL is a sequence of string segments.  An anchor is the value of its  *)
(* href attribute: is_str says whether article_bs.get('href') is a str.    *)
(***************************************************************************)

BaseUrl == <<"https://krsk.sibnovosti.ru">>

StrHref(h) == [is_str |-> TRUE, href |-> h]

\* an anchor without href: article_bs.get('href') is None
NoHref == [is_str |-> FALSE, href |-> << >>]

Anchors == { NoHref, StrHref(<< >>), StrHref(<<"/a">>), StrHref(<<"/b">>),
             StrHref(BaseUrl \o <<"/a">>) }

Pages == SeqsUpTo(Anchors, MaxAnchors)

_extract_url(article_bs) ==
    IF article_bs.is_str THEN article_bs.href ELSE <<"url not found">>

\* the condition of the 'continue' of find_articles
SkipUrl(url, found) ==
    url = << >> \/ url \in Range(found) \/ url = <<"url not found">>

\* a variant of EnoughUrls that compares with > instead of >=
EnoughUrls_OffByOne(found, n) == Len(found) > n

\* the condition of the 'return' of find_articles
EnoughUrls(found, n) == Len(found) >= n

\* An article page: whether the elements HTMLParser looks up are there, and
\* the tokens of the date string _fill_article_with_meta_information builds.
ArticlePages ==
    [content : BOOLEAN, meta : BOOLEAN,
     date : { <<Tok_1430, Tok_5, Tok_marta>>, <<Tok_1430, Tok_marta>> }]

\* HTMLParser.parse raises: _fill_article_with_text on a missing container
\* (None has no find_all), _fill_article_with_meta_information on a missing
\* element (None has no text) or on the ValueError of unify_date_format.
ParseRaises(art) ==
    \/ ~art.content
    \/ ~art.meta
    \/ ~unify_date_format(art.date).ok

InitScraper ==
    /\ num_articles \in 1..MaxArticles
    /\ n_seeds \in 0..MaxSeeds
    /\ urls = << >>
    /\ seed_i = 0
    /\ page = << >>
    /\ anchor_i = 0
    /\ fetched = << >>
    /\ pc = "find"
    /\ err = "none"
    /\ next_id = 1
    /\ parsed = << >>
    /\ raw_written = << >>
    /\ meta_written = << >>

\* for seed_url in self._seed_urls: make_request, BeautifulSoup, find_all
FetchSeed ==
    /\ pc = "find"
    /\ seed_i < n_seeds
    /\ seed_i' = seed_i + 1
    /\ fetched' = Append(fetched, seed_i + 1)
    /\ \E p \in Pages : page' = p
    /\ anchor_i' = 0
    /\ pc' = "anchors"
    /\ UNCHANGED << num_articles, n_seeds, urls, err, next_id, parsed, raw_written,
                    meta_written >>

\* make_request raises (requests gives up on the seed page): nothing catches it
FetchSeedRaises ==
    /\ pc = "find"
    /\ seed_i < n_seeds
    /\ seed_i' = seed_i + 1
    /\ fetched' = Append(fetched, seed_i + 1)
    /\ pc' = "aborted"
    /\ err' = "transport"
    /\ UNCHANGED << num_articles, n_seeds, urls, page, anchor_i, next_id, parsed,
                    raw_written, meta_written >>

\* one pass of the inner loop: the return (the locals soup and paragraph go
\* out of scope), the continue or the append
AnchorStep ==
    /\ pc = "anchors"
    /\ anchor_i < Len(page)
    /\ IF EnoughUrls(urls, num_articles)
       THEN /\ pc' = "parse"
            /\ page' = << >>
            /\ anchor_i' = 0
            /\ urls' = urls
       ELSE LET url == _extract_url(page[anchor_i + 1])
            IN  /\ urls' = IF SkipUrl(url, urls) THEN urls
                           ELSE Append(urls, BaseUrl \o url)
                /\ anchor_i' = anchor_i + 1
                /\ UNCHANGED << pc, page >>
    /\ UNCHANGED << num_articles, n_seeds, seed_i, fetched, err, next_id, parsed,
                    raw_written, meta_written >>

\* the inner loop is over: back to the outer loop, which rebinds res and soup
AnchorsExhausted ==
    /\ pc = "anchors"
    /\ anchor_i = Len(page)
    /\ pc' = "find"
    /\ page' = << >>
    /\ anchor_i' = 0
    /\ UNCHANGED << num_articles, n_seeds, urls, seed_i, fetched, err, next_id, parsed,
                    raw_written, meta_written >>

\* the outer loop is over: find_articles returns
SeedsExhausted ==
    /\ pc = "find"
    /\ seed_i = n_seeds
    /\ pc' = "parse"
    /\ UNCHANGED << num_articles, n_seeds, urls, seed_i, page, anchor_i, fetched, err,
                    next_id, parsed, raw_written, meta_written >>

\* a variant of ParseArticle that skips an article whose parse raises
ParseArticle_SkipsOnError ==
    /\ pc = "parse"
    /\ next_id <= Len(urls)
    /\ parsed' = Append(parsed, next_id)
    /\ next_id' = next_id + 1
    /\ \E art \in ArticlePages :
          IF ParseRaises(art)
          THEN UNCHANGED << raw_written, meta_written >>
          ELSE /\ raw_written' = Append(raw_written, next_id)
               /\ meta_written' = Append(meta_written, next_id)
    /\ UNCHANGED << num_articles, n_seeds, urls, seed_i, page, anchor_i, fetched, pc,
                    err >>

\* one pass of the loop of main: HTMLParser(url, id_).parse(), to_raw, to_meta.
\* parse returns self.article, an Article, or raises; main catches nothing.
ParseArticle ==
    /\ pc = "parse"
    /\ next_id <= Len(urls)
    /\ parsed' = Append(parsed, next_id)
    /\ \E art \in ArticlePages :
          IF ParseRaises(art)
          THEN /\ pc' = "aborted"
               /\ err' = "extraction"
               /\ UNCHANGED << next_id, raw_written, meta_written >>
          ELSE /\ raw_written' = Append(raw_written, next_id)
               /\ meta_written' = Append(meta_written, next_id)
               /\ next_id' = next_id + 1
               /\ UNCHANGED << pc, err >>
    /\ UNCHANGED << num_articles, n_seeds, urls, seed_i, page, anchor_i, fetched >>

\* the loop of main is over
MainReturns ==
    /\ pc = "parse"
    /\ next_id > Len(urls)
    /\ pc' = "done"
    /\ UNCHANGED << num_articles, n_seeds, urls, seed_i, page, anchor_i, fetched, err,
                    next_id, parsed, raw_written, meta_written >>

ScraperIdle ==
    /\ num_articles = 1 /\ n_seeds = 0 /\ urls = << >> /\ seed_i = 0 /\ page = << >>
    /\ anchor_i = 0 /\ fetched = << >> /\ pc = "idle" /\ err = "none" /\ next_id = 1
    /\ parsed = << >> /\ raw_written = << >> /\ meta_written = << >>

----------------------------------------------------------------------------
(***************************************************************************)
(* Config._validate_config_content                                         *)
(*                                                                         *)
(* A JSON value is [t |-> its Python type, v |-> its value]: the number of *)
(* an int, 0 or 1 for a bool (False, True), the elements of a list, and 0  *)
(* or << >> where the checks never read the value.  A URL is a sequence of *)
(* one-character strings.                                                  *)
(***************************************************************************)

\* core_utils.constants, imported by scrapper.py
NUM_ARTICLES_UPPER_LIMIT == 150
TIMEOUT_LOWER_LIMIT == 0
TIMEOUT_UPPER_LIMIT == 60

PyInt(n) == [t |-> "int", v |-> n]
PyBool(b) == [t |-> "bool", v |-> IF b THEN 1 ELSE 0]
PyStr == [t |-> "str", v |-> 0]
PyDict == [t |-> "dict", v |-> 0]
PyFloat == [t |-> "float", v |-> 0]
PyNone == [t |-> "NoneType", v |-> 0]

\* isinstance(x, int): bool is a subclass of int
IsInstanceInt(x) == x.t \in {"int", "bool"}

IsInstanceBool(x) == x.t = "bool"

\* the seed URLs payloads are built from
Url_http == <<"h","t","t","p",":","/","/","a","/">>
Url_https == <<"h","t","t","p","s",":","/","/","a","/","b">>
Url_nopath == <<"h","t","t","p","s",":","/","/","a">>
Url_ftp == <<"f","t","p",":","/","/","a","/">>

\* an element of seed_urls: a str, or something else (v is then << >>)
SeedElements == { [t |-> "str", v |-> u] : u \in {Url_http, Url_https, Url_nopath, Url_ftp} }
                \cup { [t |-> "int", v |-> << >>] }

\* re.match(r'https?://.*/', url): 'http', an optional 's', '://', then a '/'
\* somewhere in what follows
MatchesSeedPattern(url) ==
    /\ Len(url) >= 4
    /\ SubSeq(url, 1, 4) = <<"h","t","t","p">>
    /\ \E r \in {5, 6} :
          /\ r = 6 => At(url, 5) = "s"
          /\ At(url, r) = ":" /\ At(url, r + 1) = "/" /\ At(url, r + 2) = "/"
          /\ \E i \in (r + 3)..Len(url) : url[i] = "/"

SeedUrlsValues ==
    { [t |-> "str", v |-> << >>] }
    \cup { [t |-> "list", v |-> l] : l \in SeqsUpTo(SeedElements, MaxSeeds) }

TotalArticlesValues ==
    { PyInt(0), PyInt(1), PyInt(NUM_ARTICLES_UPPER_LIMIT),
      PyInt(NUM_ARTICLES_UPPER_LIMIT + 1), PyBool(TRUE), PyStr, PyFloat }

TimeoutValues ==
    { PyInt(TIMEOUT_LOWER_LIMIT - 1), PyInt(TIMEOUT_LOWER_LIMIT),
      PyInt(TIMEOUT_UPPER_LIMIT), PyInt(TIMEOUT_UPPER_LIMIT + 1), PyBool(TRUE),
      PyStr, PyFloat }

Payloads ==
    [seed_urls : SeedUrlsValues,
     total_articles : TotalArticlesValues,
     headers : {PyDict, PyStr},
     encoding : {PyStr, PyNone},
     timeout : TimeoutValues,
     should_verify_certificate : {PyBool(TRUE), PyStr},
     headless_mode : {PyBool(FALSE), PyInt(1)}]

\* the conditions of the 'raise' statements, in the order of the code
SeedUrlsNotList(c) == c.seed_urls.t # "list"

SeedUrlIncorrect(c) ==
    \E i \in 1..Len(c.seed_urls.v) :
        LET url == c.seed_urls.v[i]
        IN  url.t # "str" \/ ~MatchesSeedPattern(url.v)

\* a variant of NumberOfArticlesIncorrect without the isinstance(..., bool) test
NumberOfArticlesIncorrect_BoolPasses(c) ==
    \/ ~IsInstanceInt(c.total_articles)
    \/ c.total_articles.v < 1

NumberOfArticlesIncorrect(c) ==
    \/ ~IsInstanceInt(c.total_articles)
    \/ IsInstanceBool(c.total_articles)
    \/ c.total_articles.v < 1

NumberOfArticlesOutOfRange(c) == c.total_articles.v > NUM_ARTICLES_UPPER_LIMIT

HeadersIncorrect(c) == c.headers.t # "dict"

EncodingIncorrect(c) == c.encoding.t # "str"

TimeoutIncorrect(c) ==
    \/ ~IsInstanceInt(c.timeout)
    \/ c.timeout.v < TIMEOUT_LOWER_LIMIT
    \/ c.timeout.v > TIMEOUT_UPPER_LIMIT

VerifyIncorrect(c) ==
    \/ ~IsInstanceBool(c.should_verify_certificate)
    \/ ~IsInstanceBool(c.headless_mode)

ConfigIdle == cfg = 0 /\ cfg_pc = "idle" /\ cfg_err = "none"

InitConfig == cfg \in Payloads /\ cfg_pc = "seed_list" /\ cfg_err = "none"

\* One check of _validate_config_content: raise, or fall through to the next.
Check(here, violated, error, next) ==
    /\ cfg_pc = here
    /\ IF violated
       THEN cfg_pc' = "raised" /\ cfg_err' = error
       ELSE cfg_pc' = next /\ cfg_err' = cfg_err
    /\ UNCHANGED cfg

CheckSeedUrlsIsList ==
    Check("seed_list", SeedUrlsNotList(cfg), "IncorrectSeedURLError", "seed_urls")

CheckSeedUrls ==
    Check("seed_urls", SeedUrlIncorrect(cfg), "IncorrectSeedURLError", "total_articles")

CheckNumberOfArticles ==
    Check("total_articles", NumberOfArticlesIncorrect(cfg),
          "IncorrectNumberOfArticlesError", "upper_limit")

CheckNumberOfArticlesRange ==
    Check("upper_limit", NumberOfArticlesOutOfRange(cfg),
          "NumberOfArticlesOutOfRangeError", "headers")

CheckHeaders ==
    Check("headers", HeadersIncorrect(cfg), "IncorrectHeadersError", "encoding")

CheckEncoding ==
    Check("encoding", EncodingIncorrect(cfg), "IncorrectEncodingError", "timeout")

CheckTimeout ==
    Check("timeout", TimeoutIncorrect(cfg), "IncorrectTimeoutError", "verify")

CheckVerify ==
    Check("verify", VerifyIncorrect(cfg), "IncorrectVerifyError", "accepted")

----------------------------------------------------------------------------
(***************************************************************************)
(* CorpusManager and MorphologicalAnalysisPipeline                         *)
(*                                                                         *)
(* A file name is [prefix, raw]: "<prefix>_raw.txt" when raw, a file that  *)
(* '*_raw.txt' does not match (such as "<prefix>_meta.json") otherwise.    *)
(* The directory maps each name in it to 0 (no bytes) or 1 (some bytes).   *)
(* A text is the list of sentences split_by_sentence returns for it.       *)
(***************************************************************************)

DigitChar(k) == CHOOSE c \in DigitChars : DigitVal(c) = k

RawName(prefix) == [prefix |-> prefix, raw |-> TRUE]

FileNames ==
    { RawName(<<DigitChar(k)>>) : k \in 1..MaxId }
    \cup { RawName(<<"0", "1">>), RawName(<<"0">>), RawName(<<"x">>) }
    \cup { [prefix |-> <<"1">>, raw |-> FALSE] }

Directories == UNION { [S -> {0, 1}] : S \in SUBSET FileNames }

Texts == SeqsUpTo({"A.", "B."}, MaxSentences)

\* self.path.glob('*_raw.txt')
RawFiles(d) == { f \in DOMAIN d : f.raw }

\* int(s) raises ValueError unless s is a decimal numeral
IntRaises(s) == ~IsDigit(s)

\* int(s) of a decimal numeral
RECURSIVE int(_)
int(s) == IF s = << >> THEN 0
          ELSE 10 * int(SubSeq(s, 1, Len(s) - 1)) + DigitVal(s[Len(s)])

\* sorted([int(file.name[:file.name.index('_')]) for file in files])
RECURSIVE SortedIds(_)
SortedIds(files) ==
    IF files = {} THEN << >>
    ELSE LET f == CHOOSE g \in files : \A h \in files : int(g.prefix) <= int(h.prefix)
         IN  <<int(f.prefix)>> \o SortedIds(files \ {f})

\* list(range(1, n + 1))
RangeList(n) == [i \in 1..n |-> i]

\* sorted(list_of_ids) != list(range(1, len(list_of_ids) + 1))
IdsInconsistent(files) == SortedIds(files) # RangeList(Cardinality(files))

\* a variant of _validate_dataset that does not look at the sizes of the raw files
_validate_dataset_IgnoresSize(kind, d) ==
    IF kind = "missing" THEN "FileNotFoundError"
    ELSE IF kind # "dir" THEN "NotADirectoryError"
    ELSE IF DOMAIN d = {} THEN "EmptyDirectoryError"
    ELSE IF \E f \in RawFiles(d) : IntRaises(f.prefix) THEN "ValueError"
    ELSE IF IdsInconsistent(RawFiles(d)) THEN "InconsistentDatasetError"
    ELSE "none"

\* CorpusManager._validate_dataset: the exception it raises, "none" if it returns
_validate_dataset(kind, d) ==
    IF kind = "missing" THEN "FileNotFoundError"
    ELSE IF kind # "dir" THEN "NotADirectoryError"
    ELSE IF DOMAIN d = {} THEN "EmptyDirectoryError"
    ELSE IF \E f \in RawFiles(d) : d[f] = 0 THEN "InconsistentDatasetError"
    ELSE IF \E f \in RawFiles(d) : IntRaises(f.prefix) THEN "ValueError"
    ELSE IF IdsInconsistent(RawFiles(d)) THEN "InconsistentDatasetError"
    ELSE "none"

\* dict.update({key: value}): a dict keeps its keys in insertion order
DictUpdate(dict, key, value) ==
    IF \E i \in 1..Len(dict) : dict[i].id = key
    THEN [i \in 1..Len(dict) |->
            IF dict[i].id = key THEN [id |-> key, text |-> value] ELSE dict[i]]
    ELSE Append(dict, [id |-> key, text |-> value])

\* list.index(x): the first position of x, counted from 0
Index(list, x) == (CHOOSE i \in 1..Len(list) :
                      list[i] = x /\ \A j \in 1..(i - 1) : list[j] # x) - 1

\* MorphologicalAnalysisPipeline._process, on the sentences of the text:
\* the position and the text of each ConlluSentence
_process(sentences) ==
    [i \in 1..Len(sentences) |->
        [position |-> Index(sentences, sentences[i]) + 1, text |-> sentences[i]]]

PipelineIdle ==
    /\ path_kind = "idle" /\ dir = << >> /\ p_pc = "idle" /\ p_err = "none"
    /\ storage = << >> /\ scanned = {} /\ conllu = << >> /\ cleaned = << >>

InitPipeline ==
    /\ path_kind \in {"missing", "file", "dir"}
    /\ dir \in (IF path_kind = "dir" THEN Directories ELSE {<< >>})
    /\ p_pc = "validate"
    /\ p_err = "none"
    /\ storage = << >>
    /\ scanned = {}
    /\ conllu = << >>
    /\ cleaned = << >>

\* CorpusManager.__init__ up to the return of _validate_dataset
Validate ==
    /\ p_pc = "validate"
    /\ p_err' = _validate_dataset(path_kind, dir)
    /\ p_pc' = IF p_err' = "none" THEN "scan" ELSE "aborted"
    /\ UNCHANGED << path_kind, dir, storage, scanned, conllu, cleaned >>

\* one pass of the loop of _scan_dataset: from_raw reads the file, whose
\* article id is the number its name starts with
ScanFile ==
    /\ p_pc = "scan"
    /\ \E file \in RawFiles(dir) \ scanned, text \in Texts :
          /\ storage' = DictUpdate(storage, int(file.prefix), text)
          /\ scanned' = scanned \cup {file}
    /\ UNCHANGED << path_kind, dir, p_pc, p_err, conllu, cleaned >>

\* _scan_dataset and CorpusManager.__init__ return
ScanReturns ==
    /\ p_pc = "scan"
    /\ scanned = RawFiles(dir)
    /\ p_pc' = "run"
    /\ UNCHANGED << path_kind, dir, p_err, storage, scanned, conllu, cleaned >>

\* one pass of the loop of run: _process, set_conllu_sentences, to_cleaned
RunArticle ==
    /\ p_pc = "run"
    /\ Len(cleaned) < Len(storage)
    /\ LET article == storage[Len(cleaned) + 1]
       IN  /\ conllu' = Append(conllu, [id |-> article.id,
                                        sentences |-> _process(article.text)])
           /\ cleaned' = Append(cleaned, article.id)
    /\ UNCHANGED << path_kind, dir, p_pc, p_err, storage, scanned >>

\* run and main return
RunReturns ==
    /\ p_pc = "run"
    /\ Len(cleaned) = Len(storage)
    /\ p_pc' = "done"
    /\ UNCHANGED << path_kind, dir, p_err, storage, scanned, conllu, cleaned >>

----------------------------------------------------------------------------
(* The specifications *)

Init == InitScraper /\ ConfigIdle /\ DateIdle /\ PipelineIdle

Next ==
    \/ FetchSeed /\ UNCHANGED << config_vars, date_vars, pipeline_vars >>
    \/ FetchSeedRaises /\ UNCHANGED << config_vars, date_vars, pipeline_vars >>
    \/ AnchorStep /\ UNCHANGED << config_vars, date_vars, pipeline_vars >>
    \/ AnchorsExhausted /\ UNCHANGED << config_vars, date_vars, pipeline_vars >>
    \/ SeedsExhausted /\ UNCHANGED << config_vars, date_vars, pipeline_vars >>
    \/ ParseArticle /\ UNCHANGED << config_vars, date_vars, pipeline_vars >>
    \/ MainReturns /\ UNCHANGED << config_vars, date_vars, pipeline_vars >>

Spec == Init /\ [][Next]_vars

InitC == InitConfig /\ ScraperIdle /\ DateIdle /\ PipelineIdle

NextConfig ==
    \/ CheckSeedUrlsIsList /\ UNCHANGED << scraper_vars, date_vars, pipeline_vars >>
    \/ CheckSeedUrls /\ UNCHANGED << scraper_vars, date_vars, pipeline_vars >>
    \/ CheckNumberOfArticles /\ UNCHANGED << scraper_vars, date_vars, pipeline_vars >>
    \/ CheckNumberOfArticlesRange /\ UNCHANGED << scraper_vars, date_vars, pipeline_vars >>
    \/ CheckHeaders /\ UNCHANGED << scraper_vars, date_vars, pipeline_vars >>
    \/ CheckEncoding /\ UNCHANGED << scraper_vars, date_vars, pipeline_vars >>
    \/ CheckTimeout /\ UNCHANGED << scraper_vars, date_vars, pipeline_vars >>
    \/ CheckVerify /\ UNCHANGED << scraper_vars, date_vars, pipeline_vars >>

SpecConfig == InitC /\ [][NextConfig]_vars

InitD == InitDate /\ ScraperIdle /\ ConfigIdle /\ PipelineIdle

NextDate == UnifyDate /\ UNCHANGED << scraper_vars, config_vars, pipeline_vars >>

SpecDate == InitD /\ [][NextDate]_vars

InitP == InitPipeline /\ ScraperIdle /\ ConfigIdle /\ DateIdle

NextPipeline ==
    \/ Validate /\ UNCHANGED << scraper_vars, config_vars, date_vars >>
    \/ ScanFile /\ UNCHANGED << scraper_vars, config_vars, date_vars >>
    \/ ScanReturns /\ UNCHANGED << scraper_vars, config_vars, date_vars >>
    \/ RunArticle /\ UNCHANGED << scraper_vars, config_vars, date_vars >>
    \/ RunReturns /\ UNCHANGED << scraper_vars, config_vars, date_vars >>

SpecPipeline == InitP /\ [][NextPipeline]_vars

----------------------------------------------------------------------------
(***************************************************************************)
(* The claims                                                              *)
(***************************************************************************)

\* find_articles has returned to main
FindArticlesReturned == pc \in {"parse", "done"} \/ err = "extraction"

\* C1: after find_articles returns, Crawler.urls holds no URL more than once.
C1_NoDuplicateUrls == FindArticlesReturned => NoDuplicates(urls)

\* C2: in every state while find_articles runs and after it returns,
\* len(Crawler.urls) <= Config.get_num_articles().
C2_AtMostNumArticles == Len(urls) <= num_articles

\* the inner loop is about to take an anchor with the list already full
C2_Witness ==
    /\ pc = "anchors"
    /\ anchor_i < Len(page)
    /\ Len(urls) = num_articles
    /\ num_articles = MaxArticles

\* C3: when parse fails for one discovered URL the article is skipped and every
\* later URL is still parsed: main never ends on an extraction error, and when
\* it has ended every discovered URL has been parsed.
C3_BadPageSkipped ==
    /\ err # "extraction"
    /\ pc = "done" => parsed = RangeList(Len(urls))

\* str(article_id), the prefix of the name to_raw writes to
RECURSIVE Str(_)
Str(n) == IF n < 10 THEN <<DigitChar(n)>> ELSE Str(n \div 10) \o <<DigitChar(n % 10)>>

\* C7: at every point of a scraper run and when it ends, the ids persisted so
\* far are 1..k, each written once, so the raw files of the run pass the
\* contiguous-id check of CorpusManager._validate_dataset.
C7_PersistedIdsContiguous ==
    /\ raw_written = RangeList(Len(raw_written))
    /\ meta_written = RangeList(Len(meta_written))
    /\ ~IdsInconsistent({ RawName(Str(id)) : id \in Range(raw_written) })

\* the run ended on a page that does not parse, after persisting an article
C7_Witness ==
    /\ pc = "aborted"
    /\ err = "extraction"
    /\ Len(raw_written) >= 1
    /\ Len(parsed) = Len(raw_written) + 1

\* C10: from the moment len(urls) equals the configured count, no URL is
\* appended and no further seed page is fetched.
C10_StopsEntirely ==
    [][Len(urls) >= num_articles => (urls' = urls /\ fetched' = fetched)]_vars

\* --- C4

C4_WellFormedSeeds == { [t |-> "str", v |-> Url_http], [t |-> "str", v |-> Url_https] }

\* the checks of the claim, in its order: whether the payload violates each,
\* and the error of each
C4_Violations(c) ==
    << c.seed_urls.t # "list"
          \/ \E i \in 1..Len(c.seed_urls.v) : c.seed_urls.v[i] \notin C4_WellFormedSeeds,
       c.total_articles.t # "int" \/ c.total_articles.v < 1,
       c.total_articles.t = "int" /\ c.total_articles.v > NUM_ARTICLES_UPPER_LIMIT,
       c.headers.t # "dict",
       c.encoding.t # "str",
       ~ ( /\ c.timeout.t \in {"int", "bool"}
           /\ c.timeout.v >= TIMEOUT_LOWER_LIMIT
           /\ c.timeout.v <= TIMEOUT_UPPER_LIMIT ),
       c.should_verify_certificate.t # "bool" \/ c.headless_mode.t # "bool" >>

C4_Errors ==
    << "IncorrectSeedURLError", "IncorrectNumberOfArticlesError",
       "NumberOfArticlesOutOfRangeError", "IncorrectHeadersError",
       "IncorrectEncodingError", "IncorrectTimeoutError", "IncorrectVerifyError" >>

C4_FirstError(c) ==
    IF \A k \in 1..7 : ~C4_Violations(c)[k] THEN "none"
    ELSE C4_Errors[CHOOSE k \in 1..7 :
                      C4_Violations(c)[k] /\ \A j \in 1..(k - 1) : ~C4_Violations(c)[j]]

C9_Malformed(tokens) ==
    \/ ~ \E i \in 1..Len(tokens) : InMonths(Lower(tokens[i]))
    \/ ~ \E i \in 1..Len(tokens) : HasColon(tokens[i])
    \/ ~ \E i \in 1..Len(tokens) : IsDigit(tokens[i])

\* C9: for every token sequence with no month name, or no token with a colon,
\* or no all-digit token, unify_date_format raises instead of returning a date.
C9_MalformedRaises ==
    (date_out # Pending /\ C9_Malformed(date_in)) => ~date_out.ok

\* a date string with a time and a day but no month was rejected
C9_Witness ==
    /\ date_in = <<Tok_1430, Tok_5>>
    /\ date_out = ValueError

\* --- C5

C5_Numbered(d) == { f \in RawFiles(d) : ~IntRaises(f.prefix) }

\* a gap, a duplicate or an out-of-range id among the ids of the raw files
C5_BadId(d) ==
    \/ \E f \in C5_Numbered(d) :
          int(f.prefix) < 1 \/ int(f.prefix) > Cardinality(RawFiles(d))
    \/ \E f, g \in C5_Numbered(d) : f # g /\ int(f.prefix) = int(g.prefix)
    \/ \E f \in C5_Numbered(d) : \E j \in 1..(int(f.prefix) - 1) :
          ~ \E g \in C5_Numbered(d) : int(g.prefix) = j

C5_IdsExactlyOneToN(d) ==
    /\ C5_Numbered(d) = RawFiles(d)
    /\ ~C5_BadId(d)

\* C5: construction on an existing directory succeeds only if the directory is
\* non-empty, no raw file is empty and the ids are exactly 1..N; an empty
\* directory fails with EmptyDirectoryError; an empty raw file, a gap, a
\* duplicate or an out-of-range id fails with InconsistentDatasetError.
C5_ValidationOutcome ==
    (p_pc # "validate" /\ path_kind = "dir") =>
        /\ p_err = "none" =>
              /\ DOMAIN dir # {}
              /\ \A f \in RawFiles(dir) : dir[f] # 0
              /\ C5_IdsExactlyOneToN(dir)
        /\ DOMAIN dir = {} => p_err = "EmptyDirectoryError"
        /\ (DOMAIN dir # {} /\ ((\E f \in RawFiles(dir) : dir[f] = 0) \/ C5_BadId(dir)))
              => p_err = "InconsistentDatasetError"

\* --- C6

C6_ChecksPass ==
    /\ path_kind = "dir"
    /\ DOMAIN dir # {}
    /\ \A f \in RawFiles(dir) : dir[f] # 0
    /\ C5_IdsExactlyOneToN(dir)

\* C6: no record is loaded before all the checks have passed; when a check
\* fails the storage stays empty and nothing is segmented or written; nothing
\* is segmented before every record is loaded.
C6_NoPartialLoad ==
    /\ (storage # << >> \/ scanned # {} \/ conllu # << >> \/ cleaned # << >>)
          => (C6_ChecksPass /\ p_pc # "validate" /\ p_err = "none")
    /\ p_err # "none" => (storage = << >> /\ conllu = << >> /\ cleaned = << >>)
    /\ (conllu # << >> \/ cleaned # << >>) => scanned = RawFiles(dir)

\* a corpus with a good raw file and a bad one was rejected with nothing loaded
C6_Witness ==
    /\ p_pc = "aborted"
    /\ p_err = "InconsistentDatasetError"
    /\ \E f \in C5_Numbered(dir) : dir[f] # 0 /\ int(f.prefix) = 1
    /\ storage = << >>

\* C8: the i-th sentence _process returns has position i, also when the same
\* sentence text occurs more than once.
C8_PositionsSequential ==
    \A k \in 1..Len(conllu) : \A i \in 1..Len(conllu[k].sentences) :
        conllu[k].sentences[i].position = i

====
